---- MODULE Spec2Model ----
(***************************************************************************)
(* The "Query Tweets" handler of waybacktweets.py (a Streamlit script).    *)
(* One script run is one invocation: the widgets hold the inputs, a click  *)
(* on the button runs the pipeline fetch -> parse -> build -> filter ->    *)
(* display -> encode, and everything the handler writes to the page is     *)
(* collected, in order, in ui.                                             *)
(*                                                                         *)
(* Time is abstracted to two instants per calendar day: midnight and a     *)
(* later time of that day.  A date d is the day number d, the instant of   *)
(* (d, late) is 2*d + (1 if late else 0), so pd.Timestamp(d) = 2*d.        *)
(***************************************************************************)
EXTENDS Integers, Sequences, FiniteSets, TLC

VARIABLES username, start_date, end_date, status_codes_filter,
          pc, archived_tweets, parsed_tweets, df, filtered_df, csv_data,
          e, ui, stages, invocation

vars == <<username, start_date, end_date, status_codes_filter,
          pc, archived_tweets, parsed_tweets, df, filtered_df, csv_data,
          e, ui, stages, invocation>>

inputs == <<username, start_date, end_date, status_codes_filter>>

locals == <<archived_tweets, parsed_tweets, df, filtered_df, csv_data>>

-----------------------------------------------------------------------------
(* Bounds *)

\* longest capture list the Archive Client returns
MaxRows == 2

\* calendar days are 0..MaxDay
MaxDay == 1

\* clicks on the button that are followed
MaxInvocations == 2

Days == 0..MaxDay

-----------------------------------------------------------------------------
(* Inputs of the widgets *)

Usernames == {"", "jack"}

StatusOptions == {"200", "404", "500", "403"}

\* the selections of the multiselect that are explored
StatusSelections == {{}, {"200"}, {"200", "404"}} \cap SUBSET StatusOptions

field_options ==
    <<"archived_timestamp", "original_tweet_url",
      "archived_tweet_url", "archived_statuscode">>

FieldSet == {field_options[i] : i \in 1..Len(field_options)}

RenameColumns ==
    [archived_timestamp  |-> "timestamp",
     original_tweet_url  |-> "original_url",
     archived_tweet_url  |-> "archived_url",
     archived_statuscode |-> "statuscode"]

-----------------------------------------------------------------------------
(* Values *)

\* the float NaN pandas puts in a cell whose key the record lacks
NaN == "<NaN>"

\* the null timestamp of pandas; every comparison with it is False
NaT == -1

\* a timestamp string as the parser delivers it: parseable or not
RawTimestamps ==
    {[kind |-> "ok", day |-> d, late |-> l] : d \in Days, l \in BOOLEAN}
    \cup {[kind |-> "garbage", day |-> 0, late |-> FALSE]}

\* the cell of the timestamp column of a record without archived_timestamp
NaNTimestamp == [kind |-> "nan", day |-> 0, late |-> FALSE]

StatusCodes == {"200", "404"}

\* pd.Timestamp(date): midnight of that day
Timestamp(date) == 2 * date

\* Timestamp.date()
DateOf(t) == t \div 2

IsMidnight(t) == t % 2 = 0

\* pd.to_datetime(..., errors="coerce") on one cell
to_datetime(raw) ==
    IF raw.kind = "ok"
    THEN Timestamp(raw.day) + (IF raw.late THEN 1 ELSE 0)
    ELSE NaT

\* >= and <= of pandas on a datetime column: False on NaT
Ge(a, b) == a # NaT /\ b # NaT /\ a >= b

Le(a, b) == a # NaT /\ b # NaT /\ a <= b

-----------------------------------------------------------------------------
(* What the external collaborators may return *)

FullRecords ==
    {[archived_timestamp  |-> ts,
      original_tweet_url  |-> "https://twitter.com/jack/status/1",
      archived_tweet_url  |-> "https://web.archive.org/web/1",
      archived_statuscode |-> sc] : ts \in RawTimestamps, sc \in StatusCodes}

Omit(rec, k) == [x \in (DOMAIN rec) \ {k} |-> rec[x]]

SeqsOfLen(S, n) == [1..n -> S]

\* TweetsParser.parse(): one record per capture, in order; the last record
\* may lack one of the requested keys
ParserOutputs(n) ==
    IF n = 0 THEN {<<>>}
    ELSE SeqsOfLen(FullRecords, n)
         \cup {[s EXCEPT ![n] = Omit(s[n], k)] :
                  s \in SeqsOfLen(FullRecords, n), k \in FieldSet}

-----------------------------------------------------------------------------
(* pandas *)

EmptyFrame == [columns |-> <<>>, rows |-> <<>>]

Range(s) == {s[i] : i \in 1..Len(s)}

NaNFor(k) == IF k = "archived_timestamp" THEN NaNTimestamp ELSE NaN

\* pd.DataFrame(list of dicts): a column per key that occurs, NaN where a
\* record lacks the key
DataFrame(records) ==
    LET present == UNION {DOMAIN records[i] : i \in 1..Len(records)}
    IN  [columns |-> SelectSeq(field_options, LAMBDA k : k \in present),
         rows    |-> [i \in 1..Len(records) |->
                        [k \in present |->
                           IF k \in DOMAIN records[i]
                           THEN records[i][k] ELSE NaNFor(k)]]]

\* df.rename(columns=..., inplace=True): columns the frame lacks are ignored
Rename(frame) ==
    LET old(c) == CHOOSE k \in FieldSet : RenameColumns[k] = c
        cols   == {RenameColumns[k] : k \in Range(frame.columns)}
    IN  [columns |-> [i \in 1..Len(frame.columns) |->
                        RenameColumns[frame.columns[i]]],
         rows    |-> [i \in 1..Len(frame.rows) |->
                        [c \in cols |-> frame.rows[i][old(c)]]]]

HasColumn(frame, c) == c \in Range(frame.columns)

\* a table that shows every table as non-empty
emptyNever(frame) == FALSE

\* DataFrame.empty
empty(frame) == Len(frame.rows) = 0

\* df["timestamp"] = pd.to_datetime(df["timestamp"], errors="coerce")
ConvertTimestamps(frame) ==
    [frame EXCEPT !.rows =
        [i \in 1..Len(frame.rows) |->
            [frame.rows[i] EXCEPT !.timestamp = to_datetime(@)]]]

RECURSIVE MaskRowsDropDuplicates(_, _)
\* a selection that also drops a row equal to a later selected row
MaskRowsDropDuplicates(rows, mask) ==
    IF rows = <<>> THEN <<>>
    ELSE LET rest == MaskRowsDropDuplicates(Tail(rows), Tail(mask))
         IN  IF Head(mask) /\ Head(rows) \notin Range(rest)
             THEN <<Head(rows)>> \o rest
             ELSE rest

RECURSIVE MaskRows(_, _)
\* the rows whose mask is True, in their order
MaskRows(rows, mask) ==
    IF rows = <<>> THEN <<>>
    ELSE (IF Head(mask) THEN <<Head(rows)>> ELSE <<>>)
         \o MaskRows(Tail(rows), Tail(mask))

\* frame[mask], mask a boolean per row
Mask(frame, mask) == [frame EXCEPT !.rows = MaskRows(frame.rows, mask)]

\* a date test that forgets the upper end of the range
InDateRangeNoUpper(row) == Ge(row.timestamp, Timestamp(start_date))

\* (df["timestamp"] >= pd.Timestamp(start_date)) &
\* (df["timestamp"] <= pd.Timestamp(end_date)) for one row
InDateRange(row) ==
    /\ Ge(row.timestamp, Timestamp(start_date))
    /\ Le(row.timestamp, Timestamp(end_date))

DateMask(frame) == [i \in 1..Len(frame.rows) |-> InDateRange(frame.rows[i])]

\* filtered_df["statuscode"].isin(status_codes_filter) for one row
isin(row) == row.statuscode \in status_codes_filter

StatusMask(frame) == [i \in 1..Len(frame.rows) |-> isin(frame.rows[i])]

\* the text of one cell in the CSV
FormatCell(frame, row, c) ==
    IF c = "timestamp"
    THEN IF row[c] = NaT THEN ""
         ELSE LET dateOnly == \A i \in 1..Len(frame.rows) :
                                 frame.rows[i][c] = NaT
                                 \/ IsMidnight(frame.rows[i][c])
              IN  "day-" \o ToString(DateOf(row[c]))
                  \o (IF dateOnly THEN ""
                      ELSE IF IsMidnight(row[c]) THEN " 00:00:00"
                      ELSE " 12:00:00")
    ELSE IF row[c] = NaN THEN "" ELSE row[c]

\* frame.to_csv(index=False).encode("utf-8"): the header, then a line per row
to_csv(frame) ==
    <<frame.columns>> \o
    [i \in 1..Len(frame.rows) |->
        [j \in 1..Len(frame.columns) |->
            FormatCell(frame, frame.rows[i], frame.columns[j])]]

-----------------------------------------------------------------------------
(* Streamlit elements *)

Error(m)   == [kind |-> "error", msg |-> m]

Info(m)    == [kind |-> "info", msg |-> m]

Warning(m) == [kind |-> "warning", msg |-> m]

Success(n) == [kind |-> "success",
               msg  |-> "Found " \o ToString(n)
                        \o " tweets in the specified range."]

Write(m)   == [kind |-> "write", msg |-> m]

Dataframe(frame) == [kind |-> "dataframe", data |-> frame]

\* a download button whose file name leaves out the handle
DownloadButtonFixedName(bytes) ==
    [kind      |-> "download_button",
     label     |-> "Download Filtered Tweets as CSV",
     data      |-> bytes,
     file_name |-> "archived_tweets.csv",
     mime      |-> "text/csv"]

DownloadButton(bytes) ==
    [kind      |-> "download_button",
     label     |-> "Download Filtered Tweets as CSV",
     data      |-> bytes,
     file_name |-> username \o "_archived_tweets.csv",
     mime      |-> "text/csv"]

EmptyUsernameMsg == "Please enter a valid Twitter username."

DateOrderMsg == "The end date must be after the start date."

FetchingMsg == "Fetching archived tweets. Please wait..."

NoMatchMsg == "No tweets match the specified filters."

NoArchivedMsg == "No archived tweets found for the given username."

\* except Exception as e: st.error(f"An error occurred: {str(e)}")
Except(err) ==
    /\ e' = err
    /\ ui' = Append(ui, Error("An error occurred: " \o err))
    /\ pc' = "done"

\* no exception was caught
NoException == ""

\* if not username
UsernameMissing == username = ""

\* a date validation with its operands exchanged
DatesOutOfOrderSwapped == end_date > start_date

\* elif start_date > end_date
DatesOutOfOrder == start_date > end_date

\* an emptiness test that takes every list as non-empty
TruthyAlways(list) == TRUE

\* if archived_tweets
Truthy(list) == Len(list) > 0

-----------------------------------------------------------------------------
(* The script *)

Init ==
    /\ username \in Usernames
    /\ start_date \in Days
    /\ end_date \in Days
    /\ status_codes_filter \in StatusSelections
    /\ pc = "idle"
    /\ archived_tweets = <<>>
    /\ parsed_tweets = <<>>
    /\ df = EmptyFrame
    /\ filtered_df = EmptyFrame
    /\ csv_data = <<>>
    /\ e = NoException
    /\ ui = <<>>
    /\ stages = <<>>
    /\ invocation = 0

\* a run that keeps the tables of the previous run
StaleRun ==
    /\ e' = NoException
    /\ stages' = <<>>
    /\ UNCHANGED <<archived_tweets, parsed_tweets, df, filtered_df, csv_data>>

\* a new script run starts with no variable of the previous run
FreshRun ==
    /\ archived_tweets' = <<>>
    /\ parsed_tweets' = <<>>
    /\ df' = EmptyFrame
    /\ filtered_df' = EmptyFrame
    /\ csv_data' = <<>>
    /\ e' = NoException
    /\ stages' = <<>>

\* the user changes one widget: the script reruns with the button not pressed
SetInputs ==
    /\ pc \in {"idle", "done"}
    /\ \/ username' \in Usernames \ {username}
          /\ UNCHANGED <<start_date, end_date, status_codes_filter>>
       \/ start_date' \in Days \ {start_date}
          /\ UNCHANGED <<username, end_date, status_codes_filter>>
       \/ end_date' \in Days \ {end_date}
          /\ UNCHANGED <<username, start_date, status_codes_filter>>
       \/ status_codes_filter' \in StatusSelections \ {status_codes_filter}
          /\ UNCHANGED <<username, start_date, end_date>>
    /\ FreshRun
    /\ ui' = <<>>
    /\ pc' = "idle"
    /\ UNCHANGED invocation

\* the button is pressed: validation, then the info banner
Query ==
    /\ pc \in {"idle", "done"}
    /\ invocation < MaxInvocations
    /\ invocation' = invocation + 1
    /\ FreshRun
    /\ UNCHANGED inputs
    /\ IF UsernameMissing
       THEN ui' = <<Error(EmptyUsernameMsg)>> /\ pc' = "done"
       ELSE IF DatesOutOfOrder
       THEN ui' = <<Error(DateOrderMsg)>> /\ pc' = "done"
       ELSE ui' = <<Info(FetchingMsg)>> /\ pc' = "fetch"

\* 1. WaybackTweets(username).get(), and the test of its result
Fetch ==
    /\ pc = "fetch"
    /\ stages' = Append(stages, "fetch")
    /\ UNCHANGED <<inputs, parsed_tweets, df, filtered_df, csv_data, invocation>>
    /\ \/ /\ Except("fetch failed")
          /\ UNCHANGED archived_tweets
       \/ \E n \in 0..MaxRows :
            /\ archived_tweets' = [i \in 1..n |-> i]
            /\ UNCHANGED e
            /\ IF Truthy(archived_tweets')
               THEN pc' = "parse" /\ UNCHANGED ui
               ELSE pc' = "done" /\ ui' = Append(ui, Warning(NoArchivedMsg))

\* 2-3. TweetsParser(archived_tweets, username, field_options).parse()
Parse ==
    /\ pc = "parse"
    /\ stages' = Append(stages, "parse")
    /\ UNCHANGED <<inputs, archived_tweets, df, filtered_df, csv_data, invocation>>
    /\ \/ /\ Except("parse failed")
          /\ UNCHANGED parsed_tweets
       \/ /\ parsed_tweets' \in ParserOutputs(Len(archived_tweets))
          /\ pc' = "build"
          /\ UNCHANGED <<ui, e>>

\* 4-6. DataFrame, rename, to_datetime
Build ==
    /\ pc = "build"
    /\ stages' = Append(stages, "build")
    /\ UNCHANGED <<inputs, archived_tweets, parsed_tweets, filtered_df, csv_data,
                   invocation>>
    /\ LET renamed == Rename(DataFrame(parsed_tweets))
       IN  IF HasColumn(renamed, "timestamp")
           THEN /\ df' = ConvertTimestamps(renamed)
                /\ pc' = "filter_date"
                /\ UNCHANGED <<ui, e>>
           ELSE /\ df' = renamed
                /\ Except("'timestamp'")

\* 7. filter by date range
FilterDate ==
    /\ pc = "filter_date"
    /\ stages' = Append(stages, "filter")
    /\ filtered_df' = Mask(df, DateMask(df))
    /\ pc' = "filter_status"
    /\ UNCHANGED <<inputs, archived_tweets, parsed_tweets, df, csv_data, e, ui,
                   invocation>>

\* 8. filter by status codes if selected
FilterStatus ==
    /\ pc = "filter_status"
    /\ UNCHANGED <<inputs, archived_tweets, parsed_tweets, df, csv_data, stages,
                   invocation>>
    /\ IF status_codes_filter = {}
       THEN UNCHANGED filtered_df /\ pc' = "display" /\ UNCHANGED <<ui, e>>
       ELSE IF HasColumn(filtered_df, "statuscode")
       THEN /\ filtered_df' = Mask(filtered_df, StatusMask(filtered_df))
            /\ pc' = "display"
            /\ UNCHANGED <<ui, e>>
       ELSE UNCHANGED filtered_df /\ Except("'statuscode'")

\* 9. st.success, then the branch on filtered_df.empty
Display ==
    /\ pc = "display"
    /\ UNCHANGED <<inputs, locals, e, stages, invocation>>
    /\ LET n == Len(filtered_df.rows)
       IN  IF ~empty(filtered_df)
           THEN /\ ui' = ui \o <<Success(n), Write("Filtered Archived Tweets:")>>
                /\ pc' = "render"
           ELSE /\ ui' = ui \o <<Success(n), Warning(NoMatchMsg)>>
                /\ pc' = "done"

\* st.dataframe(filtered_df)
Render ==
    /\ pc = "render"
    /\ UNCHANGED <<inputs, locals, stages, invocation>>
    /\ \/ Except("render failed")
       \/ /\ ui' = Append(ui, Dataframe(filtered_df))
          /\ pc' = "encode"
          /\ UNCHANGED e

\* to_csv(index=False).encode("utf-8"), then st.download_button
Encode ==
    /\ pc = "encode"
    /\ stages' = Append(stages, "encode")
    /\ UNCHANGED <<inputs, archived_tweets, parsed_tweets, df, filtered_df,
                   invocation>>
    /\ \/ /\ Except("encode failed")
          /\ UNCHANGED csv_data
       \/ /\ csv_data' = to_csv(filtered_df)
          /\ ui' = Append(ui, DownloadButton(csv_data'))
          /\ pc' = "done"
          /\ UNCHANGED e

Next ==
    \/ SetInputs
    \/ Query
    \/ Fetch
    \/ Parse
    \/ Build
    \/ FilterDate
    \/ FilterStatus
    \/ Display
    \/ Render
    \/ Encode

Spec == Init /\ [][Next]_vars

-----------------------------------------------------------------------------
(* What the page shows *)

Has(kind) == \E i \in 1..Len(ui) : ui[i].kind = kind

CountOf(kind) == Cardinality({i \in 1..Len(ui) : ui[i].kind = kind})

Element(kind) == ui[CHOOSE i \in 1..Len(ui) : ui[i].kind = kind]

\* the row's timestamp is a date-time of a calendar day within the range
CalendarDayInRange(row) ==
    /\ row.timestamp # NaT
    /\ start_date <= DateOf(row.timestamp)
    /\ DateOf(row.timestamp) <= end_date

Occurrences(rows, r) == Cardinality({i \in 1..Len(rows) : rows[i] = r})

\* s is t with some elements left out
IsSubsequence(s, t) ==
    \E f \in [1..Len(s) -> 1..Len(t)] :
        /\ \A i \in 1..Len(s) : s[i] = t[f[i]]
        /\ \A i \in 1..Len(s), j \in 1..Len(s) : i < j => f[i] < f[j]

IsPrefix(s, t) ==
    /\ Len(s) <= Len(t)
    /\ \A i \in 1..Len(s) : s[i] = t[i]

PipelineOrder == <<"fetch", "parse", "build", "filter", "encode">>

\* both filter steps have run to their end in this invocation
FilterCompleted ==
    \/ pc \in {"display", "render", "encode"}
    \/ pc = "done" /\ Has("success")

\* some record of the parser lacks a requested key
RecordLacksKey ==
    \E i \in 1..Len(parsed_tweets) : DOMAIN parsed_tweets[i] # FieldSet

-----------------------------------------------------------------------------
(* Claims *)

\* C1: after the date step the kept rows are exactly the rows of the table
\* whose timestamp is non-null and whose calendar day lies in
\* [start_date, end_date], at whatever time of that day.
C1_DateStepKeepsCalendarDays ==
    pc = "filter_status" =>
        filtered_df.rows =
            MaskRows(df.rows,
                     [i \in 1..Len(df.rows) |-> CalendarDayInRange(df.rows[i])])

\* C2: every row of the table that is counted, displayed or exported has a
\* calendar day in [start_date, end_date] and, when status codes are selected,
\* one of the selected status codes; with no status code selected, rows are
\* dropped on their timestamp alone.  The count, the table shown and the
\* bytes offered are those of that table.
C2_FilteredRowsSatisfyCriteria ==
    FilterCompleted =>
        /\ \A i \in 1..Len(filtered_df.rows) :
              /\ CalendarDayInRange(filtered_df.rows[i])
              /\ status_codes_filter # {} =>
                    filtered_df.rows[i].statuscode \in status_codes_filter
        /\ status_codes_filter = {} =>
              LET kept == {filtered_df.rows[i].timestamp :
                              i \in 1..Len(filtered_df.rows)}
              IN  Len(filtered_df.rows) =
                    Cardinality({i \in 1..Len(df.rows) :
                                    df.rows[i].timestamp \in kept})
        /\ \A i \in 1..Len(ui) :
              /\ ui[i].kind = "success" =>
                    ui[i] = Success(Len(filtered_df.rows))
              /\ ui[i].kind = "dataframe" => ui[i].data = filtered_df
              /\ ui[i].kind = "download_button" =>
                    ui[i].data = to_csv(filtered_df)

\* a query with a status selection that dropped a row and exported the rest
C2_Witness ==
    /\ pc = "done"
    /\ Has("download_button")
    /\ status_codes_filter # {}
    /\ Len(filtered_df.rows) >= 1
    /\ Len(df.rows) > Len(filtered_df.rows)

\* C3: a click with an empty handle or with start_date after end_date ends
\* at once with one error banner: no stage runs and nothing is fetched,
\* built, filtered or encoded.
C3_InvalidInputOnlyErrorBanner ==
    (pc # "idle" /\ (username = "" \/ start_date > end_date)) =>
        /\ pc = "done"
        /\ Len(ui) = 1
        /\ ui[1].kind = "error"
        /\ stages = <<>>
        /\ archived_tweets = <<>>
        /\ parsed_tweets = <<>>
        /\ df = EmptyFrame
        /\ filtered_df = EmptyFrame
        /\ csv_data = <<>>

\* a click with a handle and start_date after end_date
C3_Witness ==
    /\ pc = "done"
    /\ username # ""
    /\ start_date > end_date
    /\ ui = <<Error(DateOrderMsg)>>

\* C4: a finished invocation shows either no error message at all, or one
\* error message and neither a success banner, a table nor a download action.
C4_FullySucceedsOrFullyFails ==
    pc = "done" =>
        \/ ~Has("error")
        \/ /\ CountOf("error") = 1
           /\ ~Has("success")
           /\ ~Has("dataframe")
           /\ ~Has("download_button")

C7_EmptyResultNotice ==
    (/\ "fetch" \in Range(stages)
     /\ e = NoException
     /\ archived_tweets = <<>>) =>
        /\ pc = "done"
        /\ stages = <<"fetch">>
        /\ ui = <<Info(FetchingMsg), Warning(NoArchivedMsg)>>
        /\ ui[2] # Warning(NoMatchMsg)
        /\ parsed_tweets = <<>>
        /\ df = EmptyFrame
        /\ filtered_df = EmptyFrame
        /\ csv_data = <<>>

\* a valid query whose fetch returned no capture
C7_Witness ==
    /\ pc = "done"
    /\ stages = <<"fetch">>
    /\ e = NoException
    /\ archived_tweets = <<>>
    /\ Has("warning")

\* C8: once the date step has run, the filtered table is the built table with
\* rows left out: not longer, the rows in their order, every copy of a
\* surviving row kept, and the same columns.
C8_FilteredIsSubsequence ==
    (\/ pc \in {"filter_status", "display", "render", "encode"}
     \/ pc = "done" /\ "filter" \in Range(stages)) =>
        /\ Len(filtered_df.rows) <= Len(df.rows)
        /\ IsSubsequence(filtered_df.rows, df.rows)
        /\ \A r \in Range(filtered_df.rows) :
              Occurrences(filtered_df.rows, r) = Occurrences(df.rows, r)
        /\ filtered_df.columns = df.columns

\* two equal rows that both pass the filters and are exported
C8_Witness ==
    /\ pc = "done"
    /\ Has("download_button")
    /\ Len(df.rows) = 2
    /\ df.rows[1] = df.rows[2]
    /\ filtered_df.rows = df.rows

\* C9: when a record of the parser lacks a requested key, the invocation
\* ends with an error and shows no count, table or download action.
C9_MissingKeyStopsWithError ==
    (pc = "done" /\ RecordLacksKey) =>
        /\ e # NoException
        /\ Has("error")
        /\ ~Has("success")
        /\ ~Has("dataframe")
        /\ ~Has("download_button")

\* C10: the stages of an invocation run in the order fetch, parse, build,
\* filter, encode, one at a time; after a caught failure the next thing to
\* happen is a new run; and a run that arrives at the fetch holds no
\* captures, records, tables or bytes and shows only the info banner.
C10_StagesInOrderNothingCarriedOver ==
    [][/\ IsPrefix(stages', PipelineOrder)
       /\ (stages' # stages /\ stages' # <<>>) =>
             stages' = Append(stages, PipelineOrder[Len(stages) + 1])
       /\ e # NoException => (stages' = <<>> /\ pc' \in {"idle", "fetch", "done"})
       /\ pc' = "fetch" =>
             /\ stages' = <<>>
             /\ archived_tweets' = <<>>
             /\ parsed_tweets' = <<>>
             /\ df' = EmptyFrame
             /\ filtered_df' = EmptyFrame
             /\ csv_data' = <<>>
             /\ e' = NoException
             /\ ui' = <<Info(FetchingMsg)>>]_vars

\* the second click of a session has arrived at the fetch
C10_Witness ==
    /\ invocation = 2
    /\ pc = "fetch"
    /\ stages = <<>>
    /\ df = EmptyFrame

====
